---- MODULE Spec2Model ----
(***************************************************************************)
(* Model of pyterrier.terrier.index: the IterDictIndexer build pipeline    *)
(* (_BaseIterDictIndexer, _IterDictIndexer_fifo, _IterDictIndexer_nofifo)  *)
(* and the TerrierIndexer guard it relies on.                              *)
(*                                                                         *)
(* Python strings are sequences of one-character strings, so len() is Len. *)
(* A document is a record (a mapping from field name to value).            *)
(* One indexer instance is modelled: `self` holds its attributes, `side`   *)
(* the class it was built from ("fifo" or "nofifo").                       *)
(***************************************************************************)
EXTENDS Integers, Sequences, FiniteSets, Bags, TLC

\* ------------------------------------------------------------------ bounds
MaxDocs == 3        \* longest input stream
MaxThreads == 2     \* largest worker count
PipeCap == 2        \* units of room in a fifo: a write that needs more blocks
MaxHooks == 2       \* cleanup hooks registered
MaxCalls == 2       \* index() calls made on the instance

\* ------------------------------------------------------------------ inputs
DocA == [docno |-> <<"d", "1">>, text |-> <<"a">>, title |-> <<"t">>, url |-> <<"u">>]
DocB == [docno |-> <<"d", "2", "2">>, text |-> <<"b">>, title |-> <<"t">>]
DocC == [docno |-> <<"d", "3">>, text |-> <<"c">>, title |-> <<"t", "t">>]
DocD == [docno |-> <<"d", "4">>, title |-> <<"t">>]
DocE == [text |-> <<"e">>, title |-> <<"t">>]

Docs == {DocA, DocB, DocC, DocD, DocE}

\* a pre-tokenised record: the frequency of a is the int 1, that of b the float 2.5
DocT == [docno |-> <<"d", "5">>, text |-> <<"x">>,
         toks |-> [a |-> [float |-> FALSE, whole |-> 1, tenths |-> 0],
                   b |-> [float |-> TRUE, whole |-> 2, tenths |-> 5]]]

RECURSIVE SeqsUpTo(_, _)
SeqsUpTo(S, n) ==
    IF n = 0 THEN {<<>>}
    ELSE LET shorter == SeqsUpTo(S, n - 1)
         IN  shorter \cup {Append(s, x) : s \in {t \in shorter : Len(t) = n - 1}, x \in S}

Streams == SeqsUpTo(Docs, MaxDocs)

\* meta arguments: a dict is its <<key, length>> pairs in insertion order, a list its keys
MetaDocno == [kind |-> "dict", items |-> << <<"docno", 2>> >>]
MetaTitleDocno == [kind |-> "dict", items |-> << <<"title", 1>>, <<"docno", 2>> >>]
MetaTitle == [kind |-> "dict", items |-> << <<"title", 1>> >>]
MetaList == [kind |-> "list", items |-> <<"docno", "title">>]
MetaChoices == {MetaDocno, MetaTitleDocno, MetaTitle, MetaList}

Types == {"CLASSIC", "SINGLEPASS", "MEMORY"}
Sides == {"fifo", "nofifo"}

\* ------------------------------------------------------------------ state
VARIABLES
    side,       \* the class of the instance: _IterDictIndexer_fifo or _IterDictIndexer_nofifo
    self,       \* the instance attributes
    isfile,     \* os.path.isfile(self.path): a built index is at the location
    retrieval,  \* Index.setIndexLoadingProfileAsRetrieval: the global loading profile
    input,      \* the iterable handed to index()
    calls,      \* index() calls begun so far
    fields,     \* the fields argument of the current index() call
    pc,         \* where the calling thread is
    err,        \* the exception raised to the caller by the constructor or index(), or "none"
    src,        \* what is left of the source iterator
    peek,       \* the head more_itertools.spy took from the source
    nvalid,     \* validate_doc_dict calls made by the current index() call
    warned,     \* meta keys a warning was emitted for by the current call
    hooksRun,   \* the cleanup hooks the current call has invoked, in order
    dpc,        \* where the distributor thread (_write_fifos) is
    dexc,       \* the exception that ended the distributor thread, or "none"
    doc,        \* the loop variable of _write_fifos
    ready,      \* the deque of ready fifos
    fifo,       \* per fifo: the records written and not yet read
    wend,       \* per fifo: state of the write end
    wpc,        \* per worker: where it is
    recv,       \* per worker: the records it has read, in order
    built,      \* per call that returned: the segments of the index it returned
    failures,   \* per call the caller saw fail: the exception it raised
    faulty,     \* the worker whose engine call is going to fail, or 0
    sent,       \* per record written by the distributor, in order: the fifo it went to
    mark,       \* the number of records written when the ready deque was last refilled
    allReady,   \* every refill by select so far has found every fifo writable
    todo        \* the cleanup hooks the caller has yet to register

callVars == <<calls, fields, pc, err, nvalid, warned, hooksRun, built, failures, todo>>
iterVars == <<src, peek>>
histVars == <<sent, mark, allReady>>
distVars == <<dpc, dexc, doc, ready, histVars>>
chanVars == <<fifo, wend>>
workVars == <<wpc, recv>>
envVars == <<side, isfile, retrieval, input, faulty>>
vars == <<self, envVars, callVars, iterVars, distVars, chanVars, workVars>>

NoDoc == [none |-> TRUE]

\* the fields argument of index(): None, or a list of attribute names
NoFields == [given |-> FALSE, names |-> <<>>]
EmptyFields == [given |-> TRUE, names |-> <<>>]
OneField == [given |-> TRUE, names |-> <<"text">>]
TwoFields == [given |-> TRUE, names |-> <<"text", "title">>]
FieldsArgs == {NoFields, EmptyFields, OneField, TwoFields}

\* index(), lines 655-658 and 723-726: the exception raised for the fields argument
FieldsError(f) ==
    IF ~f.given THEN "none"
    ELSE IF Len(f.names) > 1 THEN "ValueError: Use fields and text_attrs constructor kwargs"
    ELSE "ValueError: Specify the text attribute to index in the constructor."
Range(s) == {s[i] : i \in DOMAIN s}
Threads == 1..self.threads

\* ------------------------------------------------------------------ pure functions
DefaultMetaLen == 512

MetaKeys(meta) == {meta.items[i][1] : i \in DOMAIN meta.items}

\* _setup, lines 582-586: a meta that is not a dict becomes one, every length 512
NormMeta(meta) ==
    IF meta.kind = "dict" THEN meta
    ELSE [kind |-> "dict", items |-> [i \in DOMAIN meta.items |-> <<meta.items[i], DefaultMetaLen>>]]

\* _filter_iterable, line 607
AllCols(text_attrs, meta) == {"docno"} \cup Range(text_attrs) \cup MetaKeys(meta)

\* _is_dict: the model's only object without __getitem__/items is NotADict
NotADict == [notadict |-> TRUE]
is_dict(obj) == obj # NotADict

\* _validate_doc_dict, the loop over self.meta from its i-th key on
RECURSIVE ValidateFrom(_, _, _, _)
ValidateFrom(obj, items, i, warns) ==
    IF i > Len(items) THEN [exc |-> "none", warns |-> warns]
    ELSE LET k == items[i][1]
             bound == items[i][2]
         IN  IF k \notin DOMAIN obj
                 THEN [exc |-> "ValueError: meta key not found", warns |-> warns]
             ELSE IF Len(obj[k]) > bound
                 THEN IF k = "docno"
                          THEN [exc |-> "ValueError: docno too long", warns |-> warns]
                          ELSE ValidateFrom(obj, items, i + 1, warns \cup {k})
             ELSE ValidateFrom(obj, items, i + 1, warns)

\* mutant of validate_doc_dict: a docno that is too long only draws the warning
RECURSIVE ValidateFromDocnoWarns(_, _, _, _)
ValidateFromDocnoWarns(obj, items, i, warns) ==
    IF i > Len(items) THEN [exc |-> "none", warns |-> warns]
    ELSE LET k == items[i][1]
             bound == items[i][2]
         IN  IF k \notin DOMAIN obj
                 THEN [exc |-> "ValueError: meta key not found", warns |-> warns]
             ELSE IF Len(obj[k]) > bound
                 THEN ValidateFromDocnoWarns(obj, items, i + 1, warns \cup {k})
             ELSE ValidateFromDocnoWarns(obj, items, i + 1, warns)
validate_doc_dict_docno_warns(obj, meta) ==
    IF ~is_dict(obj) THEN [exc |-> "ValueError: not dict-like", warns |-> {}]
    ELSE ValidateFromDocnoWarns(obj, meta.items, 1, {})

\* mutant of validate_doc_dict: every meta value that is too long raises
RECURSIVE ValidateFromAllRaise(_, _, _, _)
ValidateFromAllRaise(obj, items, i, warns) ==
    IF i > Len(items) THEN [exc |-> "none", warns |-> warns]
    ELSE LET k == items[i][1]
             bound == items[i][2]
         IN  IF k \notin DOMAIN obj
                 THEN [exc |-> "ValueError: meta key not found", warns |-> warns]
             ELSE IF Len(obj[k]) > bound
                 THEN [exc |-> "ValueError: docno too long", warns |-> warns]
             ELSE ValidateFromAllRaise(obj, items, i + 1, warns)
validate_doc_dict_all_raise(obj, meta) ==
    IF ~is_dict(obj) THEN [exc |-> "ValueError: not dict-like", warns |-> {}]
    ELSE ValidateFromAllRaise(obj, meta.items, 1, {})

validate_doc_dict(obj, meta) ==
    IF ~is_dict(obj) THEN [exc |-> "ValueError: not dict-like", warns |-> {}]
    ELSE ValidateFrom(obj, meta.items, 1, {})

\* mutant of Spy: the chained iterator spy returns is dropped and the source used on
SpyLosesHead(s) ==
    IF s = <<>> THEN [first_docs |-> <<>>, head |-> <<>>, rest |-> <<>>]
    ELSE [first_docs |-> <<Head(s)>>, head |-> <<>>, rest |-> Tail(s)]

\* more_itertools.spy(it), line 609: the head it peeks at, the head of the chained
\* iterator it returns, and what is left of the source
Spy(s) ==
    IF s = <<>> THEN [first_docs |-> <<>>, head |-> <<>>, rest |-> <<>>]
    ELSE [first_docs |-> <<Head(s)>>, head |-> <<Head(s)>>, rest |-> Tail(s)]

\* mutant of Project: the record is passed on as it came, with all its fields
ProjectKeepsAll(d, cols) == d

\* the generator expression of _filter_iterable, line 616, on one document
CanProject(d, cols) == is_dict(d) /\ cols \subseteq DOMAIN d
Project(d, cols) == [f \in cols |-> d[f]]

\* a token frequency is a number [float, whole, tenths]: the int whole, or the float
\* whole.tenths; int(v) is the int of its whole part
PyInt(v) == [float |-> FALSE, whole |-> v.whole, tenths |-> 0]
\* mutant of CastToks: the frequencies are written as they came
CastToksKeeps(d) == d

\* _write_fifos, lines 807-808
CastToks(d) ==
    IF "toks" \in DOMAIN d
        THEN [f \in DOMAIN d |-> IF f = "toks" THEN [t \in DOMAIN d[f] |-> PyInt(d[f][t])] ELSE d[f]]
        ELSE d

\* mutant of checkIndexExists: the location is not looked at, only index_called
checkIndexExistsIgnoringFile ==
    IF self.type = "MEMORY" THEN "none"
    ELSE IF self.index_called THEN "Exception: Index method can be called only once"
    ELSE "none"

\* checkIndexExists: the exception it raises, or "none"
checkIndexExists ==
    IF self.type = "MEMORY" THEN "none"
    ELSE IF isfile /\ ~self.overwrite THEN "ValueError: Index already exists"
    ELSE IF self.index_called THEN "Exception: Index method can be called only once"
    ELSE "none"

\* ------------------------------------------------------------------ initial states
HookLists == SeqsUpTo({"ok", "raise"}, MaxHooks)

Arg(side_, threads_, meta_, type_, overwrite_, isfile_, hooks_, input_, faulty_) ==
    [side |-> side_, threads |-> threads_, meta |-> meta_, type |-> type_,
     overwrite |-> overwrite_, isfile |-> isfile_, hooks |-> hooks_, input |-> input_,
     faulty |-> faulty_, blocks |-> FALSE, pretokenised |-> FALSE, fields |-> FALSE]
WithOpts(a, blocks_, pretokenised_, fields_) ==
    [a EXCEPT !.blocks = blocks_, !.pretokenised = pretokenised_, !.fields = fields_]

\* distribution: every stream and worker count on the default meta argument, on the
\* default regime
DistArgs ==
    {Arg(s, n, MetaDocno, "CLASSIC", FALSE, FALSE, <<>>, in, 0) :
        s \in Sides, n \in 1..MaxThreads, in \in Streams}

\* validation: every meta argument, on streams of a first record and one more
MetaArgs ==
    {Arg(s, n, m, "CLASSIC", FALSE, FALSE, <<>>, in, 0) :
        s \in Sides, n \in 1..MaxThreads, m \in MetaChoices, in \in SeqsUpTo(Docs, 2)}

\* life cycle: every class, regime, overwrite flag, location state and hook list, on short streams
LifeArgs ==
    {Arg(s, n, MetaDocno, t, o, f, h, in, 0) :
        s \in Sides, n \in 1..MaxThreads, t \in Types, o \in BOOLEAN, f \in BOOLEAN,
        h \in HookLists, in \in SeqsUpTo(Docs, 1)}

\* engine failure: every class, regime, worker count and failing worker, with and
\* without a hook, on short streams
FailArgs ==
    {a \in {Arg(s, n, MetaDocno, t, o, FALSE, h, in, w) :
                s \in Sides, n \in 1..MaxThreads, t \in Types, o \in BOOLEAN,
                h \in SeqsUpTo({"ok"}, 1), in \in SeqsUpTo({DocA}, 1), w \in 1..MaxThreads} :
        a.faulty <= a.threads}

\* options: every class, worker count, regime and combination of the blocks,
\* pretokenised and fields flags, on streams of pre-tokenised records
OptArgs ==
    {WithOpts(Arg(s, n, MetaDocno, t, FALSE, FALSE, <<>>, in, 0), b, p, f) :
        s \in Sides, n \in 1..MaxThreads, t \in Types, b \in BOOLEAN, p \in BOOLEAN,
        f \in BOOLEAN, in \in SeqsUpTo({DocT}, 2)}

Args == DistArgs \cup MetaArgs \cup LifeArgs \cup FailArgs \cup OptArgs

InitFrom(A) ==
    \E a \in A :
        /\ side = a.side
        /\ self = [threads |-> a.threads, text_attrs |-> <<"text">>, meta |-> a.meta,
                   type |-> a.type, overwrite |-> a.overwrite, blocks |-> a.blocks,
                   pretokenised |-> a.pretokenised, fields |-> a.fields,
                   stemmer |-> "porter", stopwords |-> "terrier",
                   index_called |-> FALSE, properties |-> <<>>, cleanup_hooks |-> <<>>]
        /\ isfile = a.isfile
        /\ retrieval = TRUE
        /\ input = a.input
        /\ faulty = a.faulty
        /\ failures = <<>>
        /\ todo = a.hooks
        /\ calls = 0
        /\ fields = NoFields
        /\ pc = "init"
        /\ err = "none"
        /\ src = <<>>
        /\ peek = <<>>
        /\ nvalid = 0
        /\ warned = {}
        /\ hooksRun = <<>>
        /\ built = <<>>
        /\ dpc = "none"
        /\ dexc = "none"
        /\ doc = NoDoc
        /\ ready = <<>>
        /\ sent = <<>>
        /\ mark = 0
        /\ allReady = TRUE
        /\ fifo = <<>>
        /\ wend = <<>>
        /\ wpc = <<>>
        /\ recv = <<>>

Init == InitFrom(Args)

\* ------------------------------------------------------------------ the calling thread
Raise(e) == pc' = "raised" /\ err' = e

\* _BaseIterDictIndexer.__init__, lines 556-575
Construct ==
    /\ pc = "init"
    /\ LET e == IF self.pretokenised /\ self.fields
                    THEN "ValueError: pretokenised not supported for fields"
                ELSE IF self.pretokenised /\ self.text_attrs # <<"text">>
                    THEN "ValueError: pretokenised ignores text_attrs"
                ELSE "none"
       IN  IF e # "none"
               THEN pc' = "ctor_raised" /\ err' = e /\ UNCHANGED self
               ELSE /\ pc' = "new"
                    /\ err' = "none"
                    /\ self' = IF self.pretokenised
                                   THEN [self EXCEPT !.stemmer = "None", !.stopwords = "None",
                                                     !.text_attrs = <<"toks">>]
                                   ELSE self
    /\ UNCHANGED <<envVars, calls, fields, nvalid, warned, hooksRun, built, failures, todo,
                   iterVars, distVars, chanVars, workVars>>

\* indexer.cleanup_hooks.append(hook), before the first build
RegisterHook ==
    /\ pc = "new"
    /\ todo # <<>>
    /\ self' = [self EXCEPT !.cleanup_hooks = Append(@, Head(todo))]
    /\ todo' = Tail(todo)
    /\ UNCHANGED <<envVars, calls, fields, pc, err, nvalid, warned, hooksRun, built, failures,
                   iterVars, distVars, chanVars, workVars>>

\* the exceptions of a build that was begun and then failed: in validation, in
\* the projection of a record, in the engine, in a cleanup hook
BuildFailures ==
    {"ValueError: not dict-like", "ValueError: meta key not found", "ValueError: docno too long",
     "KeyError", "JavaException", "HookError"}

\* mutant of IndexCall: the fields argument is tested for truth, so an empty list passes
IndexCallTruthyFields ==
    /\ pc \in {"new", "returned", "raised"}
    /\ todo = <<>>
    /\ calls < MaxCalls
    /\ calls' = calls + 1
    /\ \E f \in FieldsArgs :
           /\ fields' = f
           /\ IF f.given /\ f.names # <<>>
                  THEN Raise(FieldsError(f))
                  ELSE pc' = "setup" /\ err' = "none"
    /\ src' = input
    /\ peek' = <<>>
    /\ nvalid' = 0
    /\ warned' = {}
    /\ hooksRun' = <<>>
    /\ dpc' = "none" /\ dexc' = "none" /\ doc' = NoDoc /\ ready' = <<>>
    /\ sent' = <<>> /\ mark' = 0 /\ allReady' = TRUE
    /\ fifo' = <<>> /\ wend' = <<>> /\ wpc' = <<>> /\ recv' = <<>>
    /\ failures' = IF pc = "raised" /\ err \in BuildFailures
                       THEN Append(failures, [call |-> calls, err |-> err])
                       ELSE failures
    /\ UNCHANGED <<self, envVars, built, todo>>

\* index(it, fields), lines 711-726 and 648-658: entry and the fields check; the caller
\* has seen how its previous call ended
IndexCall ==
    /\ pc \in {"new", "returned", "raised"}
    /\ todo = <<>>
    /\ calls < MaxCalls
    /\ calls' = calls + 1
    /\ \E f \in FieldsArgs :
           /\ fields' = f
           /\ IF f.given
                  THEN Raise(FieldsError(f))
                  ELSE pc' = "setup" /\ err' = "none"
    /\ src' = input
    /\ peek' = <<>>
    /\ nvalid' = 0
    /\ warned' = {}
    /\ hooksRun' = <<>>
    /\ dpc' = "none" /\ dexc' = "none" /\ doc' = NoDoc /\ ready' = <<>>
    /\ sent' = <<>> /\ mark' = 0 /\ allReady' = TRUE
    /\ fifo' = <<>> /\ wend' = <<>> /\ wpc' = <<>> /\ recv' = <<>>
    /\ failures' = IF pc = "raised" /\ err \in BuildFailures
                       THEN Append(failures, [call |-> calls, err |-> err])
                       ELSE failures
    /\ UNCHANGED <<self, envVars, built, todo>>

Put(props, k, v) == [x \in DOMAIN props \cup {k} |-> IF x = k THEN v ELSE props[x]]

\* _setup, lines 577-601
SetupProps(s) ==
    Put(Put(Put(Put(s.properties,
        "metaindex.compressed.crop.long", "true"),
        "FlatJSONDocument.process", s.text_attrs),
        "FieldTags.process", IF s.fields THEN s.text_attrs ELSE <<>>),
        "FieldTags.casesensitive", "true")

Setup ==
    /\ pc = "setup"
    /\ LET e == checkIndexExists
       IN  IF e # "none"
               THEN Raise(e) /\ UNCHANGED self
               ELSE /\ pc' = "classes"
                    /\ err' = "none"
                    /\ self' = [self EXCEPT !.meta = NormMeta(self.meta),
                                            !.properties = SetupProps(self)]
    /\ UNCHANGED <<envVars, calls, fields, nvalid, warned, hooksRun, built, failures, todo,
                   iterVars, distVars, chanVars, workVars>>

\* indexerAndMergerClasses, lines 326-354: the properties it sets
ClassesProps(s) ==
    LET p1 == Put(Put(s.properties,
                  "indexer.meta.forward.keys", [i \in DOMAIN s.meta.items |-> s.meta.items[i][1]]),
                  "indexer.meta.forward.keylens", [i \in DOMAIN s.meta.items |-> s.meta.items[i][2]])
        p2 == IF "termpipelines" \in DOMAIN p1 THEN p1
              ELSE Put(p1, "termpipelines", <<s.stopwords, s.stemmer>>)
    IN  p2

\* indexerAndMergerClasses, lines 357-380: the indexer class, or the exception raised
IndexerClass(s) ==
    IF s.type = "SINGLEPASS"
        THEN (IF s.blocks THEN "BlockSinglePassIndexer" ELSE "BasicSinglePassIndexer")
    ELSE IF s.type = "CLASSIC"
        THEN (IF s.blocks THEN "BlockIndexer" ELSE "BasicIndexer")
    ELSE IF s.blocks THEN "Exception: Memory indexing with positions not yet implemented"
    ELSE "BasicMemoryIndexer"

\* mutant of ClassesError: the fifo class does not look at the worker count of an
\* in-memory build
ClassesErrorAnyThreads ==
    LET c == IndexerClass(self)
    IN  IF side = "fifo"
            THEN IF c \notin {"BlockSinglePassIndexer", "BasicSinglePassIndexer", "BlockIndexer",
                              "BasicIndexer", "BasicMemoryIndexer"} THEN c
                 ELSE IF ~(self.threads > 0) THEN "AssertionError: threads must be positive"
                 ELSE "none"
            ELSE IF self.threads # 1 THEN "AssertionError: multiple threads on Windows"
                 ELSE IF c \notin {"BlockSinglePassIndexer", "BasicSinglePassIndexer", "BlockIndexer",
                                   "BasicIndexer", "BasicMemoryIndexer"} THEN c
                 ELSE IF self.pretokenised /\ self.blocks
                     THEN "AssertionError: pretokenised isnt compatible with blocks"
                 ELSE "none"

\* the checks between _setup and the first fifo (lines 732-736), or the first
\* document (lines 661-665), by class: the exception raised, or "none"
ClassesError ==
    LET c == IndexerClass(self)
    IN  IF side = "fifo"
            THEN IF c \notin {"BlockSinglePassIndexer", "BasicSinglePassIndexer", "BlockIndexer",
                              "BasicIndexer", "BasicMemoryIndexer"} THEN c
                 ELSE IF ~(self.threads > 0) THEN "AssertionError: threads must be positive"
                 ELSE IF c = "BasicMemoryIndexer" /\ self.threads # 1
                     THEN "AssertionError: multiple threads for IndexingType.MEMORY"
                 ELSE "none"
            ELSE IF self.threads # 1 THEN "AssertionError: multiple threads on Windows"
                 ELSE IF c \notin {"BlockSinglePassIndexer", "BasicSinglePassIndexer", "BlockIndexer",
                                   "BasicIndexer", "BasicMemoryIndexer"} THEN c
                 ELSE IF self.pretokenised /\ self.blocks
                     THEN "AssertionError: pretokenised isnt compatible with blocks"
                 ELSE "none"

Classes ==
    /\ pc = "classes"
    /\ LET e == ClassesError
           touched == side = "fifo" \/ self.threads = 1
       IN  /\ self' = IF touched THEN [self EXCEPT !.properties = ClassesProps(self)] ELSE self
           /\ IF e # "none"
                  THEN Raise(e) /\ UNCHANGED <<chanVars, workVars>>
                  ELSE /\ pc' = IF side = "fifo" THEN "mkfifo" ELSE "filter"
                       /\ err' = "none"
                       /\ IF side = "fifo"
                              THEN UNCHANGED <<chanVars, workVars>>
                              ELSE /\ wpc' = [i \in Threads |-> "created"]
                                   /\ recv' = [i \in Threads |-> <<>>]
                                   /\ UNCHANGED chanVars
    /\ UNCHANGED <<envVars, calls, fields, nvalid, warned, hooksRun, built, failures, todo, iterVars, distVars>>

\* the fifo and collection of each thread, lines 742-753
MkFifos ==
    /\ pc = "mkfifo"
    /\ fifo' = [i \in Threads |-> <<>>]
    /\ wend' = [i \in Threads |-> "unopened"]
    /\ wpc' = [i \in Threads |-> "created"]
    /\ recv' = [i \in Threads |-> <<>>]
    /\ pc' = "filter"
    /\ UNCHANGED <<self, envVars, calls, fields, err, nvalid, warned, hooksRun, built, failures, todo,
                   iterVars, distVars>>

\* mutant of FilterIterable: _filter_iterable written as a generator function, so that
\* calling it runs nothing: neither spy nor the validation happens in the caller
FilterIterableAsGenerator ==
    /\ pc = "filter"
    /\ pc' = "start"
    /\ UNCHANGED <<self, envVars, calls, fields, err, nvalid, warned, hooksRun, built, failures, todo,
                   iterVars, distVars, chanVars, workVars>>

\* _filter_iterable, lines 603-616, called by index() at line 756 (fifo) and at
\* lines 672 and 680 (nofifo): spy takes the head, the head is validated
\* mutant of FilterIterable: the first record is validated without the test for an empty input
FilterIterableNoEmptyTest ==
    /\ pc = "filter"
    /\ LET sp == Spy(src)
       IN  /\ peek' = sp.head
           /\ src' = sp.rest
           /\ IF Len(sp.first_docs) > 0
                  THEN LET r == validate_doc_dict(sp.first_docs[1], self.meta)
                       IN  /\ nvalid' = nvalid + 1
                           /\ warned' = r.warns
                           /\ IF r.exc # "none" THEN Raise(r.exc)
                              ELSE pc' = "start" /\ err' = "none"
                  ELSE /\ Raise("IndexError")
                       /\ UNCHANGED <<nvalid, warned>>
    /\ UNCHANGED <<self, envVars, calls, fields, hooksRun, built, failures, todo, distVars, chanVars, workVars>>

FilterIterable ==
    /\ pc = "filter"
    /\ LET sp == Spy(src)
       IN  /\ peek' = sp.head
           /\ src' = sp.rest
           /\ IF Len(sp.first_docs) > 0
                  THEN LET r == validate_doc_dict(sp.first_docs[1], self.meta)
                       IN  /\ nvalid' = nvalid + 1
                           /\ warned' = r.warns
                           /\ IF r.exc # "none" THEN Raise(r.exc)
                              ELSE pc' = "start" /\ err' = "none"
                  ELSE /\ pc' = "start"
                       /\ UNCHANGED <<nvalid, warned, err>>
    /\ UNCHANGED <<self, envVars, calls, fields, hooksRun, built, failures, todo, distVars, chanVars, workVars>>

\* threading.Thread(target=self._write_fifos, ...).start(), line 756 (fifo);
\* the iterator handed to the indexer, lines 672-673 and 680-681 (nofifo)
StartFeeding ==
    /\ pc = "start"
    /\ IF side = "fifo"
           THEN dpc' = "open" /\ UNCHANGED self
           ELSE /\ dpc' = "none"
                /\ self' = IF self.pretokenised THEN [self EXCEPT !.index_called = TRUE] ELSE self
    /\ pc' = "build"
    /\ UNCHANGED <<envVars, calls, fields, err, nvalid, warned, hooksRun, built, failures, todo, iterVars,
                   dexc, doc, ready, histVars, chanVars, workVars>>

\* the generator of _filter_iterable (line 616) over chain(head, source): what next() does
GenEmpty == peek = <<>> /\ src = <<>>
GenHead == IF peek # <<>> THEN Head(peek) ELSE Head(src)
GenAdvance ==
    IF peek # <<>> THEN peek' = Tail(peek) /\ UNCHANGED src
    ELSE src' = Tail(src) /\ UNCHANGED peek
Cols == AllCols(self.text_attrs, self.meta)

\* ParallelIndexer.buildParallel / buildParallelTokenised / indexer.index(j_collections),
\* lines 759-773: every worker starts and opens the read end of its fifo
\* mutant of StartWorkers: the metadata lengths are defaulted again when the workers start
StartWorkersDefaultsMeta ==
    /\ side = "fifo"
    /\ pc = "build"
    /\ wpc' = [i \in Threads |-> "reading"]
    /\ pc' = "join"
    /\ self' = [self EXCEPT !.meta.items = [i \in DOMAIN @ |-> <<@[i][1], DefaultMetaLen>>]]
    /\ UNCHANGED <<envVars, calls, fields, err, nvalid, warned, hooksRun, built, failures, todo,
                   iterVars, distVars, chanVars, recv>>

StartWorkers ==
    /\ side = "fifo"
    /\ pc = "build"
    /\ wpc' = [i \in Threads |-> "reading"]
    /\ pc' = "join"
    /\ UNCHANGED <<self, envVars, calls, fields, err, nvalid, warned, hooksRun, built, failures, todo,
                   iterVars, distVars, chanVars, recv>>

\* mutant of WorkerRead: the line read is put before the lines read earlier
WorkerReadPrepends(i) ==
    /\ i \in DOMAIN wpc
    /\ wpc[i] = "reading"
    /\ fifo[i] # <<>>
    /\ recv' = [recv EXCEPT ![i] = <<Head(fifo[i])>> \o @]
    /\ fifo' = [fifo EXCEPT ![i] = Tail(@)]
    /\ UNCHANGED <<self, envVars, callVars, iterVars, distVars, wend, wpc>>

\* a worker reads the next line of its fifo
WorkerRead(i) ==
    /\ i \in DOMAIN wpc
    /\ wpc[i] = "reading"
    /\ fifo[i] # <<>>
    /\ recv' = [recv EXCEPT ![i] = Append(@, Head(fifo[i]))]
    /\ fifo' = [fifo EXCEPT ![i] = Tail(@)]
    /\ UNCHANGED <<self, envVars, callVars, iterVars, distVars, wend, wpc>>

\* a worker reads end-of-file: its fifo is drained and the write end is closed
WorkerEOF(i) ==
    /\ i \in DOMAIN wpc
    /\ wpc[i] = "reading"
    /\ fifo[i] = <<>>
    /\ wend[i] = "closed"
    /\ wpc' = [wpc EXCEPT ![i] = "done"]
    /\ UNCHANGED <<self, envVars, callVars, iterVars, distVars, chanVars, recv>>

\* the engine call of a worker fails: a Java exception inside buildParallel /
\* indexer.index(j_collections) (fifo, lines 761-773), where it ends the worker, or inside
\* indexer.indexDocuments / indexer.index (nofifo, lines 674 and 682), where the worker
\* is the calling thread and the exception leaves index() at once
WorkerFail(i) ==
    /\ i \in DOMAIN wpc
    /\ i = faulty
    /\ IF side = "fifo"
           THEN /\ pc = "join"
                /\ wpc[i] = "reading"
                /\ UNCHANGED <<pc, err>>
           ELSE /\ pc = "build"
                /\ wpc[i] = "created"
                /\ Raise("JavaException")
    /\ wpc' = [wpc EXCEPT ![i] = "failed"]
    /\ UNCHANGED <<self, envVars, calls, fields, nvalid, warned, hooksRun, built, failures, todo,
                   iterVars, distVars, chanVars, recv>>

\* lines 761-773: the exception of a failed worker leaves the build call, and index(),
\* which has no handler for it
BuildRaises ==
    /\ side = "fifo"
    /\ pc = "join"
    /\ \E i \in Threads : wpc[i] = "failed"
    /\ Raise("JavaException")
    /\ UNCHANGED <<self, envVars, calls, fields, nvalid, warned, hooksRun, built, failures, todo,
                   iterVars, distVars, chanVars, workVars>>

\* mutant of Join: the build call returns once no worker is running, failed ones included
JoinIgnoringFailures ==
    /\ side = "fifo"
    /\ pc = "join"
    /\ \A i \in Threads : wpc[i] \in {"done", "failed"}
    /\ isfile' = (isfile \/ self.type # "MEMORY")
    /\ pc' = "hooks"
    /\ UNCHANGED <<self, side, retrieval, input, faulty, calls, fields, err, nvalid, warned, hooksRun, built,
                   failures, todo, iterVars, distVars, chanVars, workVars>>

\* the build call returns once every worker is done, lines 759-776
Join ==
    /\ side = "fifo"
    /\ pc = "join"
    /\ \A i \in Threads : wpc[i] = "done"
    /\ isfile' = (isfile \/ self.type # "MEMORY")
    /\ pc' = "hooks"
    /\ UNCHANGED <<self, side, retrieval, input, faulty, calls, fields, err, nvalid, warned, hooksRun, built,
                   failures, todo, iterVars, distVars, chanVars, workVars>>

\* DocListIterator (pyterrier.terrier.java), line 672: the posting list made of a
\* pre-tokenised record has every frequency as an int
DocListIterator(d) ==
    IF "toks" \in DOMAIN d
        THEN [d EXCEPT !.toks = [t \in DOMAIN d.toks |-> PyInt(d.toks[t])]]
        ELSE d
\* the document the engine is given on the nofifo path, lines 672 and 680
Wrap(d) == IF self.pretokenised THEN DocListIterator(d) ELSE d

\* indexer.indexDocuments(iter_docs) / indexer.index(javaDocCollection), lines 674 and 682:
\* the engine pulls one document through the generator, or finds it exhausted
Feed ==
    /\ side = "nofifo"
    /\ pc = "build"
    /\ IF GenEmpty
           THEN /\ self' = [self EXCEPT !.index_called = TRUE]
                /\ isfile' = (isfile \/ self.type # "MEMORY")
                /\ wpc' = [wpc EXCEPT ![1] = "done"]
                /\ pc' = "hooks"
                /\ UNCHANGED <<iterVars, recv, err>>
           ELSE /\ GenAdvance
                /\ UNCHANGED <<self, isfile>>
                /\ IF CanProject(GenHead, Cols)
                       THEN /\ recv' = [recv EXCEPT ![1] = Append(@, Wrap(Project(GenHead, Cols)))]
                            /\ UNCHANGED <<wpc, pc, err>>
                       ELSE /\ Raise("KeyError")
                            /\ UNCHANGED workVars
    /\ UNCHANGED <<side, retrieval, input, faulty, calls, fields, nvalid, warned, hooksRun, built, failures, todo,
                   distVars, chanVars>>

\* ------------------------------------------------------------------ the distributor thread
\* _write_fifos, lines 790-792: every fifo is opened for writing; open() of a fifo
\* returns once its reader has opened it
DistOpen ==
    /\ dpc = "open"
    /\ \A i \in Threads : wpc[i] = "reading"
    /\ wend' = [i \in Threads |-> "open"]
    /\ ready' = <<>>
    /\ dpc' = "next"
    /\ UNCHANGED <<self, envVars, callVars, iterVars, dexc, doc, histVars, fifo, workVars>>

\* for doc in it, line 793: the next projected document, StopIteration, or KeyError
DistNext ==
    /\ dpc = "next"
    /\ IF GenEmpty
           THEN dpc' = "exit" /\ UNCHANGED <<iterVars, doc, dexc>>
           ELSE /\ GenAdvance
                /\ IF CanProject(GenHead, Cols)
                       THEN /\ doc' = Project(GenHead, Cols)
                            /\ dpc' = IF ready = <<>> THEN "select" ELSE "write"
                            /\ UNCHANGED dexc
                       ELSE /\ dexc' = "KeyError"
                            /\ dpc' = "exit"
                            /\ UNCHANGED doc
    /\ UNCHANGED <<self, envVars, callVars, ready, histVars, chanVars, workVars>>

\* the room a serialised record takes in a fifo, in units: a record with a long docno
\* takes two
Size(d) == IF Len(d.docno) > 2 THEN 2 ELSE 1
RECURSIVE Used(_)
Used(q) == IF q = <<>> THEN 0 ELSE Size(Head(q)) + Used(Tail(q))
Free(i) == PipeCap - Used(fifo[i])
\* select.select([], fifos, []): a fifo is writable while it has some room
Writable(i) == Free(i) >= 1
\* fifo.write returns once the whole record is in the fifo
Fits(i, d) == Free(i) >= Size(d)
RECURSIVE SelectFrom(_)
SelectFrom(i) ==
    IF i > self.threads THEN <<>>
    ELSE (IF Writable(i) THEN <<i>> ELSE <<>>) \o SelectFrom(i + 1)

\* mutant of DistSelect: the deque is refilled with every fifo, as in single threaded mode
DistSelectAll ==
    /\ dpc = "select"
    /\ ready' = [i \in Threads |-> i]
    /\ UNCHANGED allReady
    /\ mark' = Len(sent)
    /\ dpc' = "write"
    /\ UNCHANGED <<self, envVars, callVars, iterVars, dexc, doc, sent, chanVars, workVars>>

\* lines 794-805: the ready deque is refilled
DistSelect ==
    /\ dpc = "select"
    /\ IF self.threads > 1
           THEN /\ \E i \in Threads : Writable(i)
                /\ ready' = SelectFrom(1)
                /\ allReady' = (allReady /\ \A i \in Threads : Writable(i))
           ELSE /\ ready' = [i \in Threads |-> i]
                /\ UNCHANGED allReady
    /\ mark' = Len(sent)
    /\ dpc' = "write"
    /\ UNCHANGED <<self, envVars, callVars, iterVars, dexc, doc, sent, chanVars, workVars>>

\* json.dump(doc, fifo); fifo.write('\n'), lines 809-810: one more line in the pipe
Enqueue(q, d) == Append(q, d)

\* mutant of DistWrite: the document is written to every ready fifo
DistWriteToAllReady ==
    /\ dpc = "write"
    /\ Fits(Head(ready), CastToks(doc))
    /\ fifo' = [i \in DOMAIN fifo |->
                  IF i \in Range(ready) THEN Enqueue(fifo[i], CastToks(doc)) ELSE fifo[i]]
    /\ ready' = <<>>
    /\ sent' = Append(sent, Head(ready))
    /\ dpc' = "next"
    /\ UNCHANGED <<self, envVars, callVars, iterVars, dexc, doc, mark, allReady, wend, workVars>>

\* lines 806-810: the document goes to the fifo at the front of the deque;
\* the write blocks while that fifo is full
\* mutant of DistWrite: the front of the deque is written to but not popped
DistWritePeeks ==
    /\ dpc = "write"
    /\ Fits(Head(ready), CastToks(doc))
    /\ fifo' = [fifo EXCEPT ![Head(ready)] = Enqueue(@, CastToks(doc))]
    /\ ready' = ready
    /\ sent' = Append(sent, Head(ready))
    /\ dpc' = "next"
    /\ UNCHANGED <<self, envVars, callVars, iterVars, dexc, doc, mark, allReady, wend, workVars>>

\* mutant of DistWrite: the deque is popped from the right
DistWritePopsRight ==
    /\ dpc = "write"
    /\ Fits(ready[Len(ready)], CastToks(doc))
    /\ fifo' = [fifo EXCEPT ![ready[Len(ready)]] = Enqueue(@, CastToks(doc))]
    /\ ready' = SubSeq(ready, 1, Len(ready) - 1)
    /\ sent' = Append(sent, ready[Len(ready)])
    /\ dpc' = "next"
    /\ UNCHANGED <<self, envVars, callVars, iterVars, dexc, doc, mark, allReady, wend, workVars>>

DistWrite ==
    /\ dpc = "write"
    /\ Fits(Head(ready), CastToks(doc))
    /\ fifo' = [fifo EXCEPT ![Head(ready)] = Enqueue(@, CastToks(doc))]
    /\ ready' = Tail(ready)
    /\ sent' = Append(sent, Head(ready))
    /\ dpc' = "next"
    /\ UNCHANGED <<self, envVars, callVars, iterVars, dexc, doc, mark, allReady, wend, workVars>>

\* mutant of ExitStackClose: the files are closed after the loop, without a with block
CloseOnlyOnSuccess(ends, exc) ==
    IF exc = "none" THEN [i \in DOMAIN ends |-> "closed"] ELSE ends

\* mutant of ExitStackClose: only the files something was written to are closed
CloseOnlyWritten(ends, exc) ==
    [i \in DOMAIN ends |-> IF recv[i] # <<>> \/ fifo[i] # <<>> THEN "closed" ELSE ends[i]]

\* contextlib.ExitStack.__exit__, line 790: every file entered is closed, whether the
\* block ended normally or by an exception
ExitStackClose(ends, exc) == [i \in DOMAIN ends |-> "closed"]

\* the with block of line 790 ends, by StopIteration or by an exception; an exception
\* then ends the thread and reaches no other thread
DistExit ==
    /\ dpc = "exit"
    /\ wend' = ExitStackClose(wend, dexc)
    /\ dpc' = IF dexc = "none" THEN "done" ELSE "died"
    /\ UNCHANGED <<self, envVars, callVars, iterVars, dexc, doc, ready, histVars, fifo, workVars>>

\* ------------------------------------------------------------------ hooks and return
\* does this build path switch the loading profile around its hooks (lines 694-700, 778-782)
Toggles == self.type # "MEMORY" /\ Len(self.cleanup_hooks) > 0
\* does this build path run the hooks at all (lines 689-700, 765-766, 784-785)
RunsHooks == side = "fifo" \/ self.type # "MEMORY"

\* lines 778-782 (fifo) and 694-697 (nofifo): the index is loaded for the hooks
HooksBegin ==
    /\ pc = "hooks"
    /\ retrieval' = IF Toggles THEN (side = "fifo") ELSE retrieval
    /\ pc' = "hookloop"
    /\ UNCHANGED <<self, side, isfile, input, faulty, calls, fields, err, nvalid, warned, hooksRun, built,
                   failures, todo,
                   iterVars, distVars, chanVars, workVars>>

\* mutant of RunHook: the exception of a hook is caught and the loop goes on
RunHookCatching ==
    /\ pc = "hookloop"
    /\ RunsHooks
    /\ Len(hooksRun) < Len(self.cleanup_hooks)
    /\ hooksRun' = Append(hooksRun, Len(hooksRun) + 1)
    /\ UNCHANGED <<self, envVars, calls, fields, pc, err, nvalid, warned, built, failures, todo,
                   iterVars, distVars, chanVars, workVars>>

\* hook(self, index), lines 699, 766 and 785
RunHook ==
    /\ pc = "hookloop"
    /\ RunsHooks
    /\ Len(hooksRun) < Len(self.cleanup_hooks)
    /\ LET h == Len(hooksRun) + 1
       IN  /\ hooksRun' = Append(hooksRun, h)
           /\ IF self.cleanup_hooks[h] = "raise"
                  THEN Raise("HookError")
                  ELSE UNCHANGED <<pc, err>>
    /\ UNCHANGED <<self, envVars, calls, fields, nvalid, warned, built, failures, todo,
                   iterVars, distVars, chanVars, workVars>>

\* lines 700-702, 767 and 787: index() returns the index reference
Return ==
    /\ pc = "hookloop"
    /\ RunsHooks => Len(hooksRun) = Len(self.cleanup_hooks)
    /\ retrieval' = IF Toggles /\ side = "nofifo" THEN TRUE ELSE retrieval
    /\ built' = Append(built, [call |-> calls, segs |-> recv])
    /\ pc' = "returned"
    /\ UNCHANGED <<self, side, isfile, input, faulty, calls, fields, err, nvalid, warned, hooksRun,
                   failures, todo,
                   iterVars, distVars, chanVars, workVars>>

Next ==
    \/ Construct
    \/ RegisterHook
    \/ IndexCall
    \/ Setup
    \/ Classes
    \/ MkFifos
    \/ FilterIterable
    \/ StartFeeding
    \/ StartWorkers
    \/ \E i \in DOMAIN wpc : WorkerRead(i)
    \/ \E i \in DOMAIN wpc : WorkerEOF(i)
    \/ \E i \in DOMAIN wpc : WorkerFail(i)
    \/ BuildRaises
    \/ Join
    \/ Feed
    \/ DistOpen
    \/ DistNext
    \/ DistSelect
    \/ DistWrite
    \/ DistExit
    \/ HooksBegin
    \/ RunHook
    \/ Return

Spec == Init /\ [][Next]_vars

\* the scheduler runs every thread that can take a step; the caller decides when to call.
\* Progress is a matter of the threads: the fair runs start from the distribution and the
\* engine failure arguments
FairInit == InitFrom(DistArgs \cup FailArgs)
FairSpec ==
    /\ FairInit /\ [][Next]_vars
    /\ WF_vars(StartWorkers) /\ WF_vars(Join) /\ WF_vars(BuildRaises)
    /\ WF_vars(HooksBegin) /\ WF_vars(RunHook) /\ WF_vars(Return)
    /\ WF_vars(DistOpen) /\ WF_vars(DistNext) /\ WF_vars(DistSelect)
    /\ WF_vars(DistWrite) /\ WF_vars(DistExit)
    /\ \A i \in 1..MaxThreads : WF_vars(WorkerRead(i)) /\ WF_vars(WorkerEOF(i))

\* ------------------------------------------------------------------ vocabulary of the claims
\* the records written to fifo i so far, in the order written
ChannelsExist == side = "fifo" /\ fifo # <<>>
Written(i) == recv[i] \o (IF ChannelsExist THEN fifo[i] ELSE <<>>)
\* the number of records handed to the workers so far
RECURSIVE HandedFrom(_)
HandedFrom(i) == IF i > Len(recv) THEN 0 ELSE Len(Written(i)) + HandedFrom(i + 1)
Handed == HandedFrom(1)
\* the i-th record of the projected input stream, as it is serialised
Projected(i) == CastToks(Project(input[i], Cols))
SeqToBag(q) == [x \in Range(q) |-> Cardinality({i \in DOMAIN q : q[i] = x})]
RECURSIVE WrittenBagFrom(_)
WrittenBagFrom(i) == IF i > Len(recv) THEN EmptyBag ELSE SeqToBag(Written(i)) (+) WrittenBagFrom(i + 1)
ValidationErrors ==
    {"ValueError: not dict-like", "ValueError: meta key not found", "ValueError: docno too long"}

\* C1: with one worker, the records written to the single fifo are at every moment the
\* first records of the projected input, in input order; once the distributor has
\* finished they are all of it, and the worker that has read end-of-file has read all of it
C1_SingleWorkerReceivesInputInOrder ==
    (ChannelsExist /\ self.threads = 1) =>
        /\ Len(Written(1)) <= Len(input)
        /\ \A k \in 1..Len(Written(1)) : Written(1)[k] = Projected(k)
        /\ dpc = "done" => Len(Written(1)) = Len(input)
        /\ (dpc = "done" /\ wpc[1] = "done") => Len(recv[1]) = Len(input)

C1_Witness ==
    /\ ChannelsExist /\ self.threads = 1
    /\ dpc = "done" /\ wpc[1] = "done"
    /\ Len(recv[1]) >= 2
    /\ recv[1][1] # recv[1][2]

\* C2: with more than one worker, once the distributor has finished without an
\* exception, the records written to the fifos are, as a multiset, exactly the
\* projected input: none lost, none written twice, and the counts sum to its length
C2_MultisetOfChannelsIsInput ==
    (ChannelsExist /\ self.threads > 1 /\ dpc = "done") =>
        /\ WrittenBagFrom(1) = SeqToBag([k \in 1..Len(input) |-> Projected(k)])
        /\ Handed = Len(input)

C2_Witness ==
    /\ ChannelsExist /\ self.threads > 1 /\ dpc = "done"
    /\ \A i \in Threads : wpc[i] = "done"
    /\ Len(recv[1]) >= 1 /\ Len(recv[2]) >= 1
    /\ Handed >= 3

\* C3 (as claimed): when index() has returned an index reference, every record of the
\* input was handed to a worker and the distributor raised no exception
C3_ReturnMeansAllDelivered ==
    pc = "returned" => (Handed = Len(input) /\ dexc = "none")

\* C4: a distributor that was ended by an exception has closed every fifo, and from the
\* moment of the exception every worker goes on to read end-of-file, unless its own
\* engine call failed: no worker stays waiting on its fifo
AllClosed == \A i \in DOMAIN wend : wend[i] = "closed"
C4_FailedDistributorClosesAll ==
    /\ [](dpc = "died" => AllClosed)
    /\ (dexc # "none") ~> (\A i \in DOMAIN wpc : wpc[i] \in {"done", "failed"})

C4_Witness ==
    /\ dpc = "died" /\ self.threads > 1
    /\ \E i \in Threads : recv[i] # <<>>
    /\ \A i \in Threads : wpc[i] = "done"

\* the length configured for a meta key, once _setup has made the meta a dict
Bound(k) ==
    LET items == NormMeta(self.meta).items
    IN  items[CHOOSE i \in DOMAIN items : items[i][1] = k][2]
DocnoTooLong(d) ==
    /\ "docno" \in MetaKeys(NormMeta(self.meta))
    /\ "docno" \in DOMAIN d
    /\ Len(d.docno) > Bound("docno")
TooLongNonId(d) ==
    {k \in MetaKeys(NormMeta(self.meta)) \ {"docno"} : k \in DOMAIN d /\ Len(d[k]) > Bound(k)}
Truncated(d) ==
    [f \in DOMAIN d |-> IF f \in TooLongNonId(d) THEN SubSeq(d[f], 1, Bound(f)) ELSE d[f]]
ValidationFailed == pc = "raised" /\ err \in ValidationErrors
PastValidation == {"start", "build", "join", "hooks", "hookloop", "returned"}

\* C5: the first record is validated once per build, by the calling thread, before the
\* distributor thread exists and before any record is handed over, on both build paths;
\* a failed validation has taken at most one record from the source
C5_ValidationOnceBeforeDistribution ==
    /\ nvalid <= 1
    /\ (dpc # "none" \/ Handed > 0 \/ pc \in PastValidation) =>
           nvalid = (IF input = <<>> THEN 0 ELSE 1)
    /\ pc \in {"setup", "classes", "mkfifo", "filter"} => (dpc = "none" /\ Handed = 0)
    /\ ValidationFailed =>
           (Len(input) - Len(src) <= 1 /\ nvalid = 1 /\ dpc = "none" /\ Handed = 0)

C5_Witness ==
    /\ ValidationFailed
    /\ Len(input) >= 2
    /\ Len(src) = Len(input) - 1

\* C6 (as claimed): no record handed to a worker, whatever its position in the input,
\* has a docno longer than the configured length
C6_NoLongDocnoReachesWorker ==
    \A i \in DOMAIN recv : \A k \in DOMAIN Written(i) : ~DocnoTooLong(Written(i)[k])

\* C6 (amended): when the first record of the input has a docno longer than the
\* configured length, no record is handed to a worker
C6_LongFirstDocnoNeverHanded ==
    (input # <<>> /\ DocnoTooLong(input[1])) => Handed = 0

C6_Witness ==
    /\ input # <<>> /\ DocnoTooLong(input[1])
    /\ Len(input) >= 2 /\ ~DocnoTooLong(input[2])
    /\ nvalid = 1 /\ pc = "raised"

\* C7: when the first record's docno is longer than its configured length, index()
\* raises out of validation: no distributor, no worker started, nothing written, and
\* no index reference is ever returned
C7_LongFirstDocnoFailsBeforeIndexing ==
    (calls >= 1 /\ input # <<>> /\ DocnoTooLong(input[1])) =>
        /\ pc \in {"setup", "classes", "mkfifo", "filter", "raised"}
        /\ nvalid = 1 => (pc = "raised" /\ err = "ValueError: docno too long")
        /\ dpc = "none"
        /\ \A i \in DOMAIN wpc : wpc[i] = "created"
        /\ Handed = 0
        /\ built = <<>>

C7_Witness ==
    /\ input # <<>> /\ DocnoTooLong(input[1])
    /\ pc = "raised" /\ err = "ValueError: docno too long"
    /\ side = "fifo" /\ fifo # <<>>

\* C8: a first record whose only fault is a non-docno meta value longer than its
\* configured length passes validation with a warning for exactly those keys, and
\* validation fails exactly when it would fail for the same record with those values cut
\* to length
C8_LongOtherMetaOnlyWarns ==
    nvalid = 1 =>
        LET d == input[1]
        IN  /\ ValidationFailed <=> validate_doc_dict(Truncated(d), self.meta).exc # "none"
            /\ ~ValidationFailed => warned = TooLongNonId(d)
            /\ (TooLongNonId(d) # {} /\ ~ValidationFailed) => pc \in PastValidation \cup {"raised"}

C8_Witness ==
    /\ nvalid = 1
    /\ warned = {"title"}
    /\ pc = "returned"
    /\ Handed >= 1

\* C9 (as claimed): a first record without docno is rejected by validation, before the
\* distributor or any worker starts, whatever the meta argument
C9_MissingDocnoRejectedUpFront ==
    (calls >= 1 /\ input # <<>> /\ "docno" \notin DOMAIN input[1] /\ nvalid = 1) =>
        (ValidationFailed /\ dpc = "none")

\* C10 (as claimed): after a call of index() has returned an index reference, every
\* later call on the instance is refused with an error at the guard
C10_SecondBuildRefused ==
    \A k \in DOMAIN built : calls > built[k].call => pc \in {"setup", "raised"}

\* the exceptions by which index() refuses a call before it starts a build
Refusals ==
    {FieldsError(OneField), FieldsError(TwoFields), "ValueError: Index already exists",
     "Exception: Index method can be called only once"}

\* C11 (as claimed): after a call of index() that began a build and failed (in validation,
\* in a worker or in a cleanup hook), every later call on the instance is refused: it
\* gets no further than the guard of _setup and ends in a refusal
C11_FailedBuildIsTerminal ==
    \A k \in DOMAIN failures :
        calls > failures[k].call =>
            /\ pc \in {"setup", "raised"}
            /\ pc = "raised" => err \in Refusals

\* nothing of a build exists yet: no fifo, no worker, no distributor, no record taken
Untouched ==
    /\ fifo = <<>> /\ wend = <<>> /\ wpc = <<>> /\ recv = <<>>
    /\ dpc = "none"
    /\ src = input /\ peek = <<>> /\ nvalid = 0
\* the location of an on-disk index holds one and overwrite was not given
LocationTaken == self.type # "MEMORY" /\ isfile /\ ~self.overwrite

\* C12: a call of index() that finds a built index at its location, overwrite not given,
\* leaves the guard of _setup with "Index already exists", and at that point no fifo
\* has been made, no record taken from the source and no worker or distributor started
C12_ExistingIndexFailsFast ==
    /\ []((pc = "setup" \/ (pc = "raised" /\ err = "ValueError: Index already exists")) => Untouched)
    /\ [][(pc = "setup" /\ LocationTaken) =>
              (pc' = "raised" /\ err' = "ValueError: Index already exists")]_vars

C12_Witness ==
    /\ pc = "raised" /\ err = "ValueError: Index already exists"
    /\ calls = 2 /\ built # <<>>
    /\ side = "fifo" /\ self.threads > 1 /\ input # <<>>

WorkerFailed == \E i \in DOMAIN wpc : wpc[i] = "failed"

\* C13: once the engine call of a worker has failed, the build call does not return: the
\* exception leaves index(), which returns no index reference and runs no cleanup hook
C13_WorkerFailureFailsBuild ==
    /\ [](WorkerFailed =>
             /\ pc \in {"join", "raised"}
             /\ pc = "join" => side = "fifo"
             /\ pc = "raised" => err = "JavaException"
             /\ hooksRun = <<>>
             /\ \A k \in DOMAIN built : built[k].call < calls)
    /\ WorkerFailed ~> (pc = "raised" /\ err = "JavaException")

C13_Witness ==
    /\ WorkerFailed
    /\ pc = "raised" /\ err = "JavaException"
    /\ side = "fifo" /\ self.threads > 1
    /\ Len(self.cleanup_hooks) > 0
    /\ \E i \in Threads : wpc[i] = "done"

\* C14 (as claimed): an indexer asked for the in-memory regime and more than one thread
\* does not come out of its constructor
C14_MemoryThreadsRejectedAtConstruction ==
    (self.type = "MEMORY" /\ self.threads > 1) => pc \in {"init", "ctor_raised"}

\* C15: the cleanup hooks are invoked in the order they were registered, each invocation
\* after every worker is done and before index() returns; a hook that raises is the last
\* one invoked and its exception is the one index() raises
C15_HooksInOrderAfterBuild ==
    /\ [](hooksRun = [k \in 1..Len(hooksRun) |-> k])
    /\ [](hooksRun # <<>> =>
             /\ pc \in {"hookloop", "returned", "raised"}
             /\ \A i \in DOMAIN wpc : wpc[i] = "done")
    /\ [](\A k \in DOMAIN hooksRun :
             self.cleanup_hooks[hooksRun[k]] = "raise" =>
                 (k = Len(hooksRun) /\ pc = "raised" /\ err = "HookError"))
    /\ [][(hooksRun' # hooksRun /\ hooksRun' # <<>>) =>
              (pc = "hookloop" /\ hooksRun' = Append(hooksRun, Len(hooksRun) + 1))]_vars

C15_Witness ==
    /\ self.cleanup_hooks = <<"raise", "ok">>
    /\ hooksRun = <<1>>
    /\ pc = "raised" /\ err = "HookError"

\* the hook phase of the current call is over: by return or by the exception of a hook
HookPhaseEnded == pc = "returned" \/ (pc = "raised" /\ err = "HookError")

\* C16 (as claimed): when the hook phase is over, by return or by the exception of a hook,
\* the loading profile is the retrieval one
C16_RetrievalRestoredAfterHooks ==
    HookPhaseEnded => retrieval = TRUE

\* C17 (as claimed): on an on-disk index, whenever a hook has been invoked and the hook
\* phase is not over by return, the loading profile is not the retrieval one
C17_HooksRunUnderNonRetrievalProfile ==
    (self.type # "MEMORY" /\ hooksRun # <<>> /\ pc \in {"hookloop", "raised"}) =>
        retrieval = FALSE

\* C18 (as claimed): when index() has returned, every registered hook has been invoked
\* once, in every regime and on both build paths
C18_EveryHookOncePerBuild ==
    pc = "returned" => hooksRun = [k \in 1..Len(self.cleanup_hooks) |-> k]

\* C19: a distributor that has come to the end of the input has closed each of the N
\* fifos, those nothing was written to as well; a fifo is closed once, from open, by the
\* exit of the with block; while the distributor runs without exception no fifo is closed
\* before every record of the input is written; and every worker then reads end-of-file,
\* unless its own engine call fails
C19_EndOfInputClosesEveryChannelOnce ==
    /\ [](dpc = "done" => (Len(wend) = self.threads /\ AllClosed))
    /\ []((dexc = "none" /\ \E i \in DOMAIN wend : wend[i] = "closed") =>
             (GenEmpty /\ Handed = Len(input)))
    /\ [][\A i \in DOMAIN wend \cap DOMAIN wend' :
              /\ (wend[i] # "closed" /\ wend'[i] = "closed") => (wend[i] = "open" /\ dpc = "exit")
              /\ wend[i] = "closed" => wend'[i] = "closed"]_vars
    /\ (dpc = "done") ~> ((\A i \in DOMAIN wpc : wpc[i] = "done") \/ WorkerFailed)

C19_Witness ==
    /\ dpc = "done" /\ self.threads > 1
    /\ \A i \in Threads : wpc[i] = "done"
    /\ \E i \in Threads : recv[i] = <<>>
    /\ \E i \in Threads : recv[i] # <<>>

RECURSIVE IsSubseq(_, _)
IsSubseq(a, b) ==
    IF a = <<>> THEN TRUE
    ELSE IF b = <<>> THEN FALSE
    ELSE IF Head(a) = Head(b) THEN IsSubseq(Tail(a), Tail(b))
    ELSE IsSubseq(a, Tail(b))
\* the projected input stream from its k-th record on, as far as it can be projected
RECURSIVE ProjectedFrom(_)
ProjectedFrom(k) ==
    IF k > Len(input) \/ ~CanProject(input[k], Cols) THEN <<>>
    ELSE <<Projected(k)>> \o ProjectedFrom(k + 1)

\* C20: with more than one worker, the records written to each fifo, and so the records
\* its worker reads, are at every moment a subsequence of the projected input in input order
C20_EachWorkerSeesInputOrder ==
    (ChannelsExist /\ self.threads > 1) =>
        \A i \in Threads :
            /\ IsSubseq(Written(i), ProjectedFrom(1))
            /\ IsSubseq(recv[i], ProjectedFrom(1))

C20_Witness ==
    /\ ChannelsExist /\ self.threads > 1 /\ dpc = "done"
    /\ \E i \in Threads :
           /\ wpc[i] = "done"
           /\ Len(recv[i]) >= 2
           /\ recv[i][1] # recv[i][2]

\* every token frequency of the record is an int
IntToks(d) == \A t \in DOMAIN d.toks : ~d.toks[t].float
\* the records of the input that carry a float frequency
HasFloat(d) == "toks" \in DOMAIN d /\ \E t \in DOMAIN d.toks : d.toks[t].float

\* C21: in pre-tokenised mode every record handed to a worker, through a fifo or by the
\* nofifo engine call, carries a toks mapping with the keys of the input record, each
\* value the int of the input value
C21_TokenFrequenciesAreInts ==
    self.pretokenised =>
        \A i \in DOMAIN recv : \A k \in DOMAIN Written(i) :
            LET d == Written(i)[k]
            IN  /\ "toks" \in DOMAIN d
                /\ IntToks(d)
                /\ \E j \in DOMAIN input :
                       /\ "toks" \in DOMAIN input[j]
                       /\ DOMAIN d.toks = DOMAIN input[j].toks
                       /\ \A t \in DOMAIN d.toks : d.toks[t].whole = input[j].toks[t].whole

C21_Witness ==
    /\ self.pretokenised /\ side = "fifo" /\ self.threads > 1
    /\ pc = "returned"
    /\ \A j \in DOMAIN input : HasFloat(input[j])
    /\ \A i \in Threads : recv[i] # <<>>

\* the number of records the generator of _filter_iterable has been asked for
Consumed == Len(input) - Len(src) - Len(peek)
\* the k-th record the distributor wrote, found in the fifo it went to
NthWritten(k) ==
    LET i == sent[k]
        r == Cardinality({j \in 1..k : sent[j] = i})
    IN  Written(i)[r]

\* C22: the projector hands out one record per input record, in input order, with
\* exactly the keys docno, text attributes and meta keys and the input record's values;
\* the k-th record written to a fifo (or given to the nofifo engine) is the projection
\* of the k-th input record, so no other field reaches a fifo; at the end of the input
\* as many records have been handed out as the input has
C22_ProjectionIsOneToOne ==
    /\ (side = "fifo" /\ dpc \in {"select", "write"}) =>
           /\ doc = Project(input[Consumed], Cols)
           /\ DOMAIN doc = Cols
           /\ \A f \in Cols : doc[f] = input[Consumed][f]
           /\ Consumed = Len(sent) + 1
    /\ ChannelsExist =>
           /\ Len(sent) = Handed
           /\ \A k \in DOMAIN sent :
                  /\ DOMAIN NthWritten(k) = Cols
                  /\ NthWritten(k) = CastToks(Project(input[k], Cols))
           /\ dpc = "done" => Len(sent) = Len(input)
    /\ (side = "nofifo" /\ recv # <<>>) =>
           /\ \A k \in DOMAIN recv[1] :
                  /\ DOMAIN recv[1][k] = Cols
                  /\ recv[1][k] = Wrap(Project(input[k], Cols))
           /\ pc \in {"build", "hooks", "hookloop", "returned"} => Len(recv[1]) = Consumed
           /\ pc \in {"hooks", "hookloop", "returned"} => Len(recv[1]) = Len(input)

C22_Witness ==
    /\ ChannelsExist /\ self.threads > 1 /\ dpc = "done"
    /\ Len(sent) >= 3
    /\ \E k \in DOMAIN input : DOMAIN input[k] # Cols
    /\ \E i \in Threads : Len(recv[i]) >= 2

\* the option combinations that exclude each other
Excluded ==
    \/ self.pretokenised /\ self.fields
    \/ self.pretokenised /\ (self.stemmer # "None" \/ self.stopwords # "None")
    \/ self.pretokenised /\ "termpipelines" \in DOMAIN self.properties
           /\ self.properties["termpipelines"] # <<"None", "None">>
    \/ self.type = "MEMORY" /\ self.blocks
    \/ self.type = "MEMORY" /\ self.threads > 1
\* the build has made its fifos or started its workers
BuildUnderWay ==
    \/ pc \in {"mkfifo", "filter", "start", "build", "join", "hooks", "hookloop", "returned"}
    \/ \E i \in DOMAIN wpc : wpc[i] # "created"
    \/ dpc # "none"

\* C23: no build has fifos, a distributor or workers while the options hold an excluded
\* combination: pretokenised with fields, pretokenised with a stemmer or stopword list,
\* in-memory with blocks, in-memory with more than one thread
C23_NoBuildWithExcludedOptions ==
    BuildUnderWay => ~Excluded

C23_Witness ==
    /\ Excluded /\ self.pretokenised /\ ~self.blocks
    /\ side = "fifo"
    /\ pc = "raised" /\ err = "AssertionError: multiple threads for IndexingType.MEMORY"

\* the step is a refill of the ready deque
Refill == dpc = "select" /\ dpc' = "write"
\* the step writes a record to a fifo
WriteStep == sent' # sent /\ sent' # <<>>
\* the fifos with room for a write, as a set
CanAccept == {i \in Threads : Free(i) >= 1}
Increasing(q) == \A i, j \in DOMAIN q : i < j => q[i] < q[j]

\* C24: with more than one worker the distributor goes to refill the ready deque only
\* when the deque is empty; the deque a refill leaves is not empty and holds exactly the
\* fifos with room at that moment, once each; the deque changes otherwise only by the
\* pop of its front; and every write puts the record in the fifo at the front of the
\* deque, pops it, and leaves every other fifo as it was
C24_RefillWhenEmptyWriteToFront ==
    /\ [][(self.threads > 1 /\ dpc' = "select" /\ dpc # "select") => ready = <<>>]_vars
    /\ [][(self.threads > 1 /\ Refill) =>
              /\ ready = <<>>
              /\ ready' # <<>>
              /\ Range(ready') = CanAccept
              /\ Increasing(ready')]_vars
    /\ [][(self.threads > 1 /\ ready' # ready) =>
              (Refill \/ (WriteStep /\ ready' = Tail(ready)) \/ ready' = <<>>)]_vars
    /\ [][(self.threads > 1 /\ WriteStep) =>
              /\ ready # <<>>
              /\ sent' = Append(sent, Head(ready))
              /\ ready' = Tail(ready)
              /\ fifo' = [fifo EXCEPT ![Head(ready)] = Append(@, CastToks(doc))]]_vars

C24_Witness ==
    /\ self.threads > 1 /\ dpc = "write"
    /\ mark = Len(sent) /\ mark >= 2
    /\ \E j \in Threads : ~Writable(j) /\ j \notin Range(ready)

\* the distributor is in a write that cannot complete until the reader of the popped fifo
\* makes room, while another fifo could take the whole record at once
BlockedOnFull ==
    /\ self.threads > 1 /\ dpc = "write" /\ ready # <<>>
    /\ ~Fits(Head(ready), CastToks(doc))
    /\ \E j \in Threads : j # Head(ready) /\ Fits(j, CastToks(doc))

\* C25: with more than one worker the distributor is never blocked writing a record to a
\* fifo without room for it while another fifo has the room: every fifo popped from the
\* ready deque still has room for the record at the moment of the write
C25_NeverBlockedOnFullChannel ==
    /\ (self.threads > 1 /\ dpc = "write" /\ ready # <<>>) => Fits(Head(ready), CastToks(doc))
    /\ ~BlockedOnFull

\* the configuration of the indexer: everything but index_called and the hook list
Config(s) ==
    [meta |-> s.meta, text_attrs |-> s.text_attrs, threads |-> s.threads, type |-> s.type,
     blocks |-> s.blocks, pretokenised |-> s.pretokenised, fields |-> s.fields,
     stemmer |-> s.stemmer, stopwords |-> s.stopwords, overwrite |-> s.overwrite,
     properties |-> s.properties]
\* the distributor or the workers have been started and index() has not returned
Started == pc \in {"build", "join", "hooks", "hookloop"}

\* C26: from the start of the distributor and the workers until index() returns no
\* attribute of the configuration changes, and every change of the configuration is a
\* step of the constructor, of _setup or of indexerAndMergerClasses
C26_ConfigurationFrozenDuringBuild ==
    /\ [][Started => Config(self') = Config(self)]_vars
    /\ [][Config(self') # Config(self) => pc \in {"init", "setup", "classes"}]_vars

C26_Witness ==
    /\ side = "fifo" /\ self.threads > 1
    /\ pc = "returned"
    /\ "indexer.meta.forward.keys" \in DOMAIN self.properties
    /\ \E i \in DOMAIN self.meta.items : self.meta.items[i][2] = DefaultMetaLen
    /\ Handed = Len(input) /\ Handed >= 2

\* no component of the build has failed: neither the distributor nor a worker
NoFailure == dexc = "none" /\ ~WorkerFailed /\ pc # "raised"
\* a step of the distributor, of a worker, or of the caller waiting for the workers
BuildStep ==
    \/ StartWorkers \/ Join
    \/ DistOpen \/ DistNext \/ DistSelect \/ DistWrite \/ DistExit
    \/ \E i \in DOMAIN wpc : WorkerRead(i) \/ WorkerEOF(i)
\* the engine has built the index: every record delivered, every fifo closed, every
\* worker finished
BuiltAll ==
    /\ pc \in {"hooks", "hookloop", "returned"}
    /\ Handed = Len(input)
    /\ dpc = "done" /\ AllClosed /\ Len(wend) = self.threads
    /\ \A i \in Threads : wpc[i] = "done" /\ fifo[i] = <<>>

\* C27: in the fifo class, for every input stream and worker count, under weak fairness
\* of the distributor and the workers, a build in which no component fails delivers
\* every record, closes every fifo, finishes every worker and reaches the built state;
\* and while the build runs without a failure some step of it is always enabled
C27_BuildTerminatesWithoutDeadlock ==
    /\ []((side = "fifo" /\ pc \in {"build", "join"} /\ NoFailure) => ENABLED BuildStep)
    /\ ((side = "fifo" /\ pc = "build") ~> (BuiltAll \/ ~NoFailure))

C27_Witness ==
    /\ side = "fifo" /\ self.threads > 1
    /\ BuiltAll /\ NoFailure /\ pc = "hooks"
    /\ Len(input) = MaxDocs
    /\ \E i \in Threads : Len(recv[i]) >= 2

\* index() was called on an empty stream
EmptyBuild == input = <<>> /\ calls >= 1

\* C28: for an empty input stream no record is validated and validation raises nothing,
\* the distributor writes no record, and in the fifo class a build that got past the
\* workers has opened and closed all N fifos and every worker has read end-of-file with
\* nothing received; _filter_iterable goes on to the build without raising; under fairness
\* the build, once started, returns the index reference unless the engine fails
C28_EmptyInputBuilds ==
    /\ [](EmptyBuild => nvalid = 0 /\ warned = {} /\ err \notin ValidationErrors
                            /\ sent = <<>> /\ Handed = 0)
    /\ [][(EmptyBuild /\ pc = "filter") => (pc' = "start" /\ err' = "none")]_vars
    /\ []((EmptyBuild /\ side = "fifo" /\ pc \in {"hooks", "hookloop", "returned"}) =>
              /\ Len(wend) = self.threads /\ AllClosed
              /\ \A i \in Threads : wpc[i] = "done" /\ recv[i] = <<>>)
    /\ ((EmptyBuild /\ side = "fifo" /\ pc = "build") ~>
              ((pc = "returned" /\ built # <<>>) \/ WorkerFailed))

C28_Witness ==
    /\ EmptyBuild /\ side = "fifo" /\ self.threads > 1
    /\ pc = "returned" /\ built # <<>> /\ built[Len(built)].call = calls
    /\ AllClosed /\ \A i \in Threads : wpc[i] = "done"

\* the fifos written to since the last refill of the ready deque, in the order written
Round == SubSeq(sent, mark + 1, Len(sent))
NoDuplicates(q) == \A i, j \in DOMAIN q : i # j => q[i] # q[j]

\* C29: with more than one worker, between two refills of the ready deque every fifo is
\* written to at most once, the deque never holds a fifo twice nor a fifo already written
\* to since the refill, and at most N records are written between two refills
C29_AtMostOneRecordPerChannelPerRound ==
    self.threads > 1 =>
        /\ NoDuplicates(Round)
        /\ NoDuplicates(ready)
        /\ Range(Round) \cap Range(ready) = {}
        /\ Len(Round) <= self.threads

C29_Witness ==
    /\ self.threads > 1 /\ dpc = "next"
    /\ Len(Round) = self.threads /\ ready = <<>>

\* C30: with more than one worker, as long as every refill of the ready deque found all
\* N fifos writable, the records have gone to the fifos in round-robin order: the k-th
\* record, counted from 0, to fifo k mod N (fifos counted from 0)
C30_AllWritableIsRoundRobin ==
    (self.threads > 1 /\ allReady) =>
        \A k \in DOMAIN sent : sent[k] - 1 = (k - 1) % self.threads

C30_Witness ==
    /\ self.threads > 1 /\ allReady
    /\ Len(sent) = MaxDocs /\ mark >= self.threads
    /\ sent[Len(sent)] - 1 = (Len(sent) - 1) % self.threads

\* C31: a call of index() with a fields argument other than None always raises the
\* ValueError of the fields check, whatever the list holds, and changes nothing: the call
\* never reaches _setup and its guard, the attributes of the indexer (configuration and
\* index_called), the location and the indexes returned so far stay as they were, no fifo
\* and no worker exists, and nothing has been taken from the input
C31_FieldsArgumentAlwaysRefused ==
    /\ [](fields.given =>
              /\ pc = "raised" /\ err = FieldsError(fields) /\ err # "none"
              /\ fifo = <<>> /\ wend = <<>> /\ wpc = <<>> /\ dpc = "none"
              /\ src = input /\ peek = <<>> /\ nvalid = 0 /\ sent = <<>>)
    /\ [][fields'.given =>
              /\ self' = self /\ isfile' = isfile /\ retrieval' = retrieval
              /\ built' = built /\ input' = input]_vars

C31_Witness ==
    /\ fields = EmptyFields /\ pc = "raised"
    /\ calls = 2 /\ built # <<>> /\ isfile
    /\ input # <<>> /\ self.properties # <<>>

====
